---- MODULE Spec2Model ----
(***************************************************************************)
(* The conversation turn orchestrator of kaller-v3: the transcript         *)
(* finalizer (services/transcription-service.js), the conversation agent   *)
(* (services/gpt-service.js), the per-call wiring of app.js, and the       *)
(* speech synthesizer and playback sequencer the wiring drives.            *)
(*                                                                         *)
(* Text is a sequence of one-character strings.  "*" stands for the        *)
(* phrase-break marker, " " for white space.  All handlers of one call run *)
(* on one event loop: every action below is one run of a handler from its  *)
(* entry to its next suspension point (await), including the listeners it  *)
(* calls synchronously through emit().                                     *)
(***************************************************************************)
EXTENDS Integers, Sequences, FiniteSets, TLC

VARIABLES
    finalResult,          \* TranscriptionService.finalResult
    speechFinal,          \* TranscriptionService.speechFinal
    sttOut,               \* what TranscriptionService emitted, in order
    lastEvent,            \* history: the provider event handled last
    nEvents,              \* history: number of provider events handled
    seg,                  \* history: events handled since finalResult was last empty
    segBase,              \* history: Len(sttOut) when finalResult was last empty
    clearedAt,            \* history: Len(gptLog) when the stream was last cleared
    acked,                \* history: the mark labels the transport has reported
    started,              \* the transport's start message was handled
    greeted,              \* recordingService resolved and the greeting was generated
    marks,                \* app.js marks
    interactionCount,     \* app.js interactionCount
    wsOut,                \* messages sent to the transport, in order
    nMarks,               \* number of mark labels handed out so far
    userContext,          \* GptService.userContext
    partialResponseIndex, \* GptService.partialResponseIndex
    procs,                \* the activations of GptService.completion
    gptLog,               \* history: requests, gptreply emissions, tool calls and returns
    synth,                \* positions of gptLog whose synthesis is in flight
    nextToSend,           \* the sequencer's next expected sequence index
    held                  \* the sequencer's held chunks (their indices)

eventVars == <<finalResult, speechFinal, sttOut, lastEvent, nEvents, seg, segBase, clearedAt>>
sttVars == <<eventVars, acked>>
appVars == <<started, greeted, marks, interactionCount, wsOut, nMarks>>
gptVars == <<userContext, partialResponseIndex, procs, gptLog>>
playVars == <<synth, nextToSend, held>>
vars == <<sttVars, appVars, gptVars, playVars>>

----------------------------------------------------------------------------
(* Bounds of the model *)

MaxEvents == 3
MaxTurns == 2
MaxChunks == 2
MaxProcs == 2
MaxFragments == 3
MaxSpoken == 2
MaxChain == 3

----------------------------------------------------------------------------
(* Text helpers *)

\* JavaScript null, as the sequence index of the greeting and of announcements
NullIndex == -1

\* The minimum length of an interim text that counts as an interruption
MinInterruptLen == 5

RECURSIVE TrimLeft(_)
TrimLeft(t) == IF t # <<>> /\ Head(t) = " " THEN TrimLeft(Tail(t)) ELSE t

RECURSIVE TrimRight(_)
TrimRight(t) ==
    IF t # <<>> /\ t[Len(t)] = " " THEN TrimRight(SubSeq(t, 1, Len(t) - 1)) ELSE t

\* String.prototype.trim
Trim(t) == TrimRight(TrimLeft(t))

\* faulty variant: the text is not trimmed before its length is tested
NonEmptyText(t) == Len(t) > 0

\* text.trim().length > 0
NonBlank(t) == Len(Trim(t)) > 0

----------------------------------------------------------------------------
(* The tool catalog (functions/function-manifest) *)

ToolNames == {"lookupPrice"}

\* tool.function.say, the pre-execution announcement of a tool
Say(name) == <<"s">>

NoName == ""

----------------------------------------------------------------------------
(* GptService *)

SystemPrompt == <<"S">>
AssistantPrompt == <<"G">>

\* The fallback prompts of loadPromptFromFile
DefaultSystemPrompt == <<"Y">>
DefaultAssistantPrompt == <<"H">>

Turn(role, name, content) == [role |-> role, name |-> name, content |-> content]

\* prompt.json as readFileSync and JSON.parse find it: kind is "record" for a
\* file that parses to an object, "absent" when reading it throws,
\* "unparseable" when JSON.parse throws
PromptFile(kind, system, assistant) ==
    [kind |-> kind, system_prompt |-> system, assistant_prompt |-> assistant]

\* The prompt.json the repository ships
PromptJson == PromptFile("record", SystemPrompt, AssistantPrompt)

\* faulty variant: the fallback seeds the system turn only
LoadPromptNoGreeting(file) ==
    IF file.kind = "record"
      THEN << Turn("system", NoName, file.system_prompt),
              Turn("assistant", NoName, file.assistant_prompt) >>
      ELSE << Turn("system", NoName, DefaultSystemPrompt) >>

\* loadPromptFromFile: one system turn and one assistant turn, from the file
\* or, when reading or parsing it throws, the default ones
LoadPromptFromFile(file) ==
    IF file.kind = "record"
      THEN << Turn("system", NoName, file.system_prompt),
              Turn("assistant", NoName, file.assistant_prompt) >>
      ELSE << Turn("system", NoName, DefaultSystemPrompt),
              Turn("assistant", NoName, DefaultAssistantPrompt) >>

\* faulty variant: the new turn is written over the last turn of the context
OverwriteLastTurn(ctx, name, role, text) ==
    [ctx EXCEPT ![Len(ctx)] = Turn(role, IF name # "user" THEN name ELSE NoName, text)]

\* updateUserContext(name, role, text) on the context ctx
UpdateUserContext(ctx, name, role, text) ==
    IF name # "user"
      THEN Append(ctx, Turn(role, name, text))
      ELSE Append(ctx, Turn(role, NoName, text))

\* setCallSid(callSid)
SetCallSid(ctx) == Append(ctx, Turn("system", NoName, <<"C">>))

\* faulty variant: the last assistant turn of the context is returned
GetLatestGreeting(ctx) ==
    LET found == {i \in 1..Len(ctx) : ctx[i].role = "assistant"}
    IN  IF found = {} THEN <<"H">>
        ELSE ctx[CHOOSE i \in found : \A j \in found : i >= j].content

\* getInitialGreeting(): the first assistant turn of the context, index null
GetInitialGreeting(ctx) ==
    LET found == {i \in 1..Len(ctx) : ctx[i].role = "assistant"}
    IN  IF found = {} THEN <<"H">>
        ELSE ctx[CHOOSE i \in found : \A j \in found : i <= j].content

\* JSON.parse accepts: "{}", "{k}" (k stands for one key-value pair whose
\* value is not an object) and "{{}}" (one key whose value is an object)
IsJSON(a) == a \in { <<"{", "}">>, <<"{", "k", "}">>, <<"{", "{", "}", "}">> }

IndexOf(a, c) ==
    LET at == {i \in 1..Len(a) : a[i] = c}
    IN  IF at = {} THEN 0 ELSE CHOOSE i \in at : \A j \in at : i <= j

LastIndexOf(a, c) ==
    LET at == {i \in 1..Len(a) : a[i] = c}
    IN  IF at = {} THEN 0 ELSE CHOOSE i \in at : \A j \in at : i >= j

\* validateFunctionArgs(args): the parsed value, "undefined", or "throws"
ValidateFunctionArgs(a) ==
    IF IsJSON(a) THEN [outcome |-> "value", value |-> a]
    ELSE IF IndexOf(a, "{") # LastIndexOf(a, "{")
      THEN LET first == SubSeq(a, 1, IndexOf(a, "}"))
           IN  IF IsJSON(first) THEN [outcome |-> "value", value |-> first]
               ELSE [outcome |-> "throws", value |-> <<>>]
      ELSE [outcome |-> "undefined", value |-> <<>>]

\* The local variables of one activation of completion(); parent is the
\* activation awaiting this one (0 for a call from the transcription handler)
NewProc(icount, parent) ==
    [ icount |-> icount, parent |-> parent, pc |-> "stream",
      completeResponse |-> <<>>, partialResponse |-> <<>>,
      functionName |-> "", functionArgs |-> <<>>, finishReason |-> "",
      nChunks |-> 0 ]

LogEntry(kind, p, idx, text, icount, ctxLen) ==
    [ kind |-> kind, proc |-> p, idx |-> idx, text |-> text,
      icount |-> icount, ctxLen |-> ctxLen ]

\* faulty variant: the constructor starts the index at one
InitialPartialResponseIndexOne == 0 + 1

\* constructor: this.partialResponseIndex = 0
InitialPartialResponseIndex == 0

\* faulty variant: the index is decremented
PreviousPartialResponseIndex(i) == i - 1

\* faulty variant: the index is not incremented
SamePartialResponseIndex(i) == i

\* this.partialResponseIndex++
NextPartialResponseIndex(i) == i + 1

\* faulty variant: a stop does not flush the buffer
EmitsFragmentOnMarkerOnly(content, finishReason) ==
    Trim(content) # <<>> /\ Trim(content)[Len(Trim(content))] = "*"

\* faulty variant: the delta is not trimmed before its last character is tested
EmitsFragmentUntrimmed(content, finishReason) ==
    \/ (content # <<>> /\ content[Len(content)] = "*")
    \/ finishReason = "stop"

\* content.trim().slice(-1) === marker || finishReason === "stop"
EmitsFragment(content, finishReason) ==
    \/ (Trim(content) # <<>> /\ Trim(content)[Len(Trim(content))] = "*")
    \/ finishReason = "stop"

\* history: the number of deltas consumed by all activations
RECURSIVE TotalChunks(_)
TotalChunks(ps) == IF ps = <<>> THEN 0 ELSE Head(ps).nChunks + TotalChunks(Tail(ps))

\* The activations a rejection of p reaches: p and every awaiting ancestor
RECURSIVE Ancestors(_, _)
Ancestors(ps, p) == IF p = 0 THEN {} ELSE {p} \cup Ancestors(ps, ps[p].parent)

FailChain(ps, p) ==
    [q \in 1..Len(ps) |-> IF q \in Ancestors(ps, p) THEN [ps[q] EXCEPT !.pc = "failed"] ELSE ps[q]]

----------------------------------------------------------------------------
(* PlaybackSequencer (services/stream-service) and the marks of app.js *)

\* The sequencer's next expected index starts at 0
InitialNextToSend == 0

\* The held chunks that become sendable once n is the next index, in order
RECURSIVE Drain(_, _)
Drain(n, hld) == IF n \in hld THEN <<n>> \o Drain(n + 1, hld \ {n}) ELSE <<>>

\* buffer(index, audio): the indices sent now, the next index and the held set
Buffer(idx, nts, hld) ==
    IF idx = nts
      THEN LET more == Drain(nts + 1, hld)
           IN  [ sent |-> <<idx>> \o more,
                 nextToSend |-> nts + 1 + Len(more),
                 held |-> hld \ {more[i] : i \in 1..Len(more)} ]
      ELSE [ sent |-> <<>>, nextToSend |-> nts, held |-> hld \cup {idx} ]

Msg(event, idx, name) == [event |-> event, idx |-> idx, name |-> name]

\* The transport messages of sending the chunks `sent`, the first mark label
\* being base + 1: one media message and one mark message per chunk
RECURSIVE SendAudio(_, _)
SendAudio(sent, base) ==
    IF sent = <<>> THEN <<>>
    ELSE << Msg("media", Head(sent), 0), Msg("mark", NullIndex, base + 1) >>
           \o SendAudio(Tail(sent), base + 1)

\* streamService.on("audiosent"): marks.push(markLabel), once per chunk sent
OnAudioSent(mks, base, k) == mks \o [i \in 1..k |-> base + i]

\* faulty variant: the interaction count is passed as the index
OnSpeechByTurn(responseIndex, icount, nts, hld) == Buffer(icount, nts, hld)

\* ttsService.on("speech"): streamService.buffer(responseIndex, audio)
OnSpeech(responseIndex, icount, nts, hld) == Buffer(responseIndex, nts, hld)

\* faulty variant: the oldest mark is dropped, whichever mark is reported
DropOldestMark(mks, name) == IF mks = <<>> THEN <<>> ELSE Tail(mks)

\* ws.on("message"), mark branch: marks.filter(m => m !== name)
RECURSIVE FilterMarks(_, _)
FilterMarks(mks, name) ==
    IF mks = <<>> THEN <<>>
    ELSE IF Head(mks) # name THEN <<Head(mks)>> \o FilterMarks(Tail(mks), name)
         ELSE FilterMarks(Tail(mks), name)

\* faulty variant: a text of exactly the threshold length interrupts
InterruptsAtThreshold(mks, text) == Len(mks) > 0 /\ Len(text) >= MinInterruptLen

\* transcriptionService.on("utterance"): whether the stream is cleared
Interrupts(mks, text) == Len(mks) > 0 /\ Len(text) > MinInterruptLen

\* faulty variant: an interruption aborts the activations in flight
AbortOnUtterance(ps, mks, text) ==
    IF Interrupts(mks, text)
      THEN [q \in 1..Len(ps) |->
              IF ps[q].pc \in {"stream", "tool", "await"}
                THEN [ps[q] EXCEPT !.pc = "failed"] ELSE ps[q]]
      ELSE ps

\* transcriptionService.on("utterance"): the activations of completion()
\* after it; the handler only writes to ws
ActivationsAfterUtterance(ps, mks, text) == ps

\* transcriptionService.on("utterance"): the messages sent to the transport
OnUtterance(mks, text) == IF Interrupts(mks, text) THEN <<Msg("clear", NullIndex, 0)>> ELSE <<>>

----------------------------------------------------------------------------
(* TranscriptionService *)

Event(type, isFinal, spFinal, text) ==
    [type |-> type, is_final |-> isFinal, speech_final |-> spFinal, text |-> text]

NoEvent == Event("none", FALSE, FALSE, <<>>)

\* faulty variant: the new text is put in front of the accumulator
AppendFinalInFront(fr, text) == text \o <<" ">> \o fr

\* this.finalResult += `${text} `
AppendFinal(fr, text) == fr \o text \o <<" ">>

\* faulty variant: the accumulator is kept after the emission
KeepAfterSpeechFinal(fr) == fr

\* this.finalResult = "" after the emission on speech_final
ResetAfterSpeechFinal(fr) == <<>>

\* faulty variant: the accumulator is kept after the emission
KeepAfterUtteranceEnd(fr) == fr

\* this.finalResult = "" after the emission on UtteranceEnd
ResetAfterUtteranceEnd(fr) == <<>>

\* One emission of the TranscriptionService
Emission(event, text) == [event |-> event, text |-> text]

\* The state (fr, sf) after the listener and what it emitted, in order
Handled(fr, sf, emits) == [finalResult |-> fr, speechFinal |-> sf, emits |-> emits]

\* faulty variant: the accumulator is emitted without testing its length
UtteranceEndBranchAnyLength(fr, sf) ==
    IF ~sf
      THEN Handled(ResetAfterUtteranceEnd(fr), sf, <<Emission("transcription", fr)>>)
      ELSE Handled(fr, sf, <<>>)

\* The branch of an UtteranceEnd event
UtteranceEndBranch(fr, sf) ==
    IF ~sf /\ Len(fr) > 0
      THEN Handled(ResetAfterUtteranceEnd(fr), sf, <<Emission("transcription", fr)>>)
      ELSE Handled(fr, sf, <<>>)

\* faulty variant: the interim test is an `if` of its own, a final text is
\* emitted on the interim channel as well
FinalBranchAlsoInterim(fr, sf, text, spFinal) ==
    IF spFinal
      THEN Handled(ResetAfterSpeechFinal(AppendFinal(fr, text)), TRUE,
                   <<Emission("transcription", AppendFinal(fr, text)),
                     Emission("utterance", text)>>)
      ELSE Handled(AppendFinal(fr, text), FALSE, <<Emission("utterance", text)>>)

\* The branch of a final event with non-blank text
FinalBranch(fr, sf, text, spFinal) ==
    IF spFinal
      THEN Handled(ResetAfterSpeechFinal(AppendFinal(fr, text)), TRUE,
                   <<Emission("transcription", AppendFinal(fr, text))>>)
      ELSE Handled(AppendFinal(fr, text), FALSE, <<>>)

\* faulty variant: the interim branch resets the flag as the final branch does
InterimBranchResetsFlag(fr, sf, text) ==
    Handled(fr, FALSE, <<Emission("utterance", text)>>)

\* The branch of a non-final event with non-blank text
InterimBranch(fr, sf, text) == Handled(fr, sf, <<Emission("utterance", text)>>)

\* The Transcript listener on the state (fr, sf): the state after it and what
\* it emits
TranscriptListener(fr, sf, ev) ==
    IF ev.type = "UtteranceEnd" THEN UtteranceEndBranch(fr, sf)
    ELSE IF ev.is_final /\ NonBlank(ev.text)
      THEN FinalBranch(fr, sf, ev.text, ev.speech_final)
    ELSE IF NonBlank(ev.text) THEN InterimBranch(fr, sf, ev.text)
    ELSE Handled(fr, sf, <<>>)

\* transcriptionService.on("transcription"): if (!text) return
Submits(text) == text # <<>>

----------------------------------------------------------------------------
(* Initial state: the objects app.ws("/connection") constructs *)

InitWith(file) ==
    /\ finalResult = <<>>
    /\ speechFinal = FALSE
    /\ sttOut = <<>>
    /\ lastEvent = NoEvent
    /\ nEvents = 0
    /\ seg = <<>>
    /\ segBase = 0
    /\ clearedAt = NullIndex
    /\ acked = {}
    /\ started = FALSE
    /\ greeted = FALSE
    /\ marks = <<>>
    /\ interactionCount = 0
    /\ wsOut = <<>>
    /\ nMarks = 0
    /\ userContext = LoadPromptFromFile(file)
    /\ partialResponseIndex = InitialPartialResponseIndex
    /\ procs = <<>>
    /\ gptLog = <<>>
    /\ synth = {}
    /\ nextToSend = InitialNextToSend
    /\ held = {}

\* The call's objects constructed with the prompt.json of the repository
Init == InitWith(PromptJson)

----------------------------------------------------------------------------
(* Actions *)

\* ws.on("message"), start branch
Start ==
    /\ ~started
    /\ started' = TRUE
    /\ userContext' = SetCallSid(userContext)
    /\ UNCHANGED <<sttVars, greeted, marks, interactionCount, wsOut, nMarks,
                   partialResponseIndex, procs, gptLog, playVars>>

\* recordingService(...).then: ttsService.generate(getInitialGreeting(), 0)
Greet ==
    /\ started /\ ~greeted
    /\ greeted' = TRUE
    /\ gptLog' = Append(gptLog, LogEntry("greeting", 0, NullIndex,
                                         GetInitialGreeting(userContext), 0, Len(userContext)))
    /\ synth' = synth \cup {Len(gptLog) + 1}
    /\ UNCHANGED <<sttVars, started, marks, interactionCount, wsOut, nMarks,
                   userContext, partialResponseIndex, procs, nextToSend, held>>

\* The emissions of es on the given channel
OnChannel(es, event) == SelectSeq(es, LAMBDA e : e.event = event)

\* The Transcript listener on one provider event, with the listeners of what
\* it emits: "utterance" (interruption) and "transcription" (submit)
Transcript(ev) ==
    LET r == TranscriptListener(finalResult, speechFinal, ev)
        out == sttOut \o r.emits
        heard == OnChannel(r.emits, "utterance")
        said == OnChannel(r.emits, "transcription")
        interim == IF heard = <<>> THEN <<>> ELSE Head(heard).text
        payload == IF said = <<>> THEN <<>> ELSE Head(said).text
        submit == said # <<>> /\ Submits(payload)
        ctx == UpdateUserContext(userContext, "user", "user", payload)
    IN  /\ started
        /\ nEvents < MaxEvents
        /\ finalResult' = r.finalResult
        /\ speechFinal' = r.speechFinal
        /\ sttOut' = out
        /\ lastEvent' = ev
        /\ nEvents' = nEvents + 1
        /\ seg' = IF r.finalResult = <<>> THEN <<>> ELSE Append(seg, ev)
        /\ segBase' = IF r.finalResult = <<>> THEN Len(out) ELSE segBase
        /\ wsOut' = IF heard # <<>> THEN wsOut \o OnUtterance(marks, interim) ELSE wsOut
        /\ clearedAt' = IF heard # <<>> /\ Interrupts(marks, interim)
                          THEN Len(gptLog) ELSE clearedAt
        /\ userContext' = IF submit THEN ctx ELSE userContext
        /\ procs' = IF submit THEN Append(procs, NewProc(interactionCount, 0))
                    ELSE IF heard # <<>>
                      THEN ActivationsAfterUtterance(procs, marks, interim)
                    ELSE procs
        /\ gptLog' = IF submit
                       THEN Append(gptLog, LogEntry("request", Len(procs) + 1, NullIndex,
                                                    payload, interactionCount, Len(ctx)))
                       ELSE gptLog
        /\ interactionCount' = IF submit THEN interactionCount + 1 ELSE interactionCount
        /\ UNCHANGED <<started, greeted, marks, nMarks, acked, partialResponseIndex,
                       playVars>>

\* One delta of a completion stream
Chunk(content, tool, name, args, finish) ==
    [content |-> content, tool |-> tool, name |-> name, args |-> args, finish |-> finish]

\* The context after the tool returned: the function turn of the tool-call
\* branch, then the turn the recursive completion() pushes on entry
ContextAfterTool(ctx, functionName, functionResponse) ==
    UpdateUserContext(UpdateUserContext(ctx, functionName, "function", functionResponse),
                      functionName, "function", functionResponse)

\* faulty variant: the tool function is called before the announcement is emitted
CallThenAnnounce(p, name, args, icount, ctxLen) ==
    << LogEntry("toolcall", p, NullIndex, args, icount, ctxLen),
       LogEntry("gptreply", p, NullIndex, Say(name), icount, ctxLen) >>

\* The tool-call branch up to its await: emit("gptreply", {null, say}), then
\* functionToCall(validatedArgs)
AnnounceThenCall(p, name, args, icount, ctxLen) ==
    << LogEntry("gptreply", p, NullIndex, Say(name), icount, ctxLen),
       LogEntry("toolcall", p, NullIndex, args, icount, ctxLen) >>

\* One iteration of the for-await loop of completion() in activation p
StreamChunk(p, c) ==
    LET pr == procs[p]
        name1 == IF c.tool /\ c.name # "" THEN c.name ELSE pr.functionName
        args1 == IF c.tool /\ c.args # <<>> THEN pr.functionArgs \o c.args
                 ELSE pr.functionArgs
        base == [pr EXCEPT !.functionName = name1, !.functionArgs = args1,
                           !.finishReason = c.finish, !.nChunks = pr.nChunks + 1]
        v == ValidateFunctionArgs(args1)
        part == pr.partialResponse \o c.content
        emits == EmitsFragment(c.content, c.finish)
    IN  /\ pr.pc = "stream"
        /\ pr.finishReason \in {"", "null"}
        /\ IF c.finish = "tool_calls"
             THEN IF v.outcome = "throws" \/ name1 \notin ToolNames
                    THEN /\ procs' = FailChain([procs EXCEPT ![p] = base], p)
                         /\ UNCHANGED <<gptLog, synth, partialResponseIndex>>
                    ELSE /\ procs' = [procs EXCEPT ![p] = [base EXCEPT !.pc = "tool"]]
                         /\ gptLog' = gptLog \o
                              AnnounceThenCall(p, name1, v.value, pr.icount, Len(userContext))
                         /\ synth' = synth \cup
                              {Len(gptLog) + i : i \in {j \in 1..2 :
                                 AnnounceThenCall(p, name1, v.value, pr.icount,
                                                  Len(userContext))[j].kind = "gptreply"}}
                         /\ UNCHANGED partialResponseIndex
             ELSE /\ procs' = [procs EXCEPT ![p] =
                        [base EXCEPT !.completeResponse = pr.completeResponse \o c.content,
                                     !.partialResponse = IF emits THEN <<>> ELSE part]]
                  /\ gptLog' = IF emits
                                 THEN Append(gptLog, LogEntry("gptreply", p, partialResponseIndex,
                                                              part, pr.icount, Len(userContext)))
                                 ELSE gptLog
                  /\ synth' = IF emits THEN synth \cup {Len(gptLog) + 1} ELSE synth
                  /\ partialResponseIndex' =
                        IF emits THEN NextPartialResponseIndex(partialResponseIndex)
                        ELSE partialResponseIndex
        /\ UNCHANGED <<sttVars, appVars, userContext, nextToSend, held>>

\* The stream of activation p is exhausted: the loop ends, the assistant turn
\* is pushed and the awaiting activation, if any, resumes its own loop
StreamEnd(p) ==
    LET pr == procs[p]
    IN  /\ pr.pc = "stream"
        /\ pr.finishReason \notin {"", "null"}
        /\ userContext' = Append(userContext, Turn("assistant", NoName, pr.completeResponse))
        /\ procs' = [q \in 1..Len(procs) |->
                        IF q = p THEN [pr EXCEPT !.pc = "done"]
                        ELSE IF q = pr.parent THEN [procs[q] EXCEPT !.pc = "stream"]
                        ELSE procs[q]]
        /\ UNCHANGED <<sttVars, appVars, partialResponseIndex, gptLog, playVars>>

\* functionToCall(validatedArgs) resolves with functionResponse
ToolReturn(p, functionResponse) ==
    LET pr == procs[p]
        ctx == ContextAfterTool(userContext, pr.functionName, functionResponse)
    IN  /\ pr.pc = "tool"
        /\ userContext' = ctx
        /\ procs' = Append([procs EXCEPT ![p].pc = "await"], NewProc(pr.icount, p))
        /\ gptLog' = gptLog \o
              << LogEntry("toolreturn", p, NullIndex, functionResponse, pr.icount,
                          Len(userContext)),
                 LogEntry("request", Len(procs) + 1, NullIndex, functionResponse,
                          pr.icount, Len(ctx)) >>
        /\ UNCHANGED <<sttVars, appVars, partialResponseIndex, playVars>>

\* functionToCall(validatedArgs) rejects: completion() rejects up the chain
ToolThrow(p) ==
    /\ procs[p].pc = "tool"
    /\ procs' = FailChain(procs, p)
    /\ UNCHANGED <<sttVars, appVars, userContext, partialResponseIndex, gptLog, playVars>>

\* The synthesis of the fragment logged at pos completes: "speech" is emitted,
\* the sequencer buffers the chunk and every chunk it sends registers a mark
TtsDone(pos) ==
    LET e == gptLog[pos]
        b == OnSpeech(e.idx, e.icount, nextToSend, held)
    IN  /\ pos \in synth
        /\ synth' = synth \ {pos}
        /\ nextToSend' = b.nextToSend
        /\ held' = b.held
        /\ wsOut' = wsOut \o SendAudio(b.sent, nMarks)
        /\ marks' = OnAudioSent(marks, nMarks, Len(b.sent))
        /\ nMarks' = nMarks + Len(b.sent)
        /\ UNCHANGED <<sttVars, started, greeted, interactionCount, gptVars>>

\* The synthesis of the fragment logged at pos fails: the failure is logged,
\* no "speech" is emitted and nothing reaches the sequencer
TtsFail(pos) ==
    /\ pos \in synth
    /\ synth' = synth \ {pos}
    /\ UNCHANGED <<sttVars, appVars, gptVars, nextToSend, held>>

\* ws.on("message"), mark branch: the transport reports a mark as played
MarkMsg(name) ==
    /\ \E i \in 1..Len(marks) : marks[i] = name
    /\ marks' = FilterMarks(marks, name)
    /\ acked' = acked \cup {name}
    /\ UNCHANGED <<eventVars, started, greeted, interactionCount, wsOut, nMarks,
                   gptVars, playVars>>

----------------------------------------------------------------------------
(* The environment: what the provider, the model, the tools, the synthesizer
   and the transport may deliver *)

SttTexts == { <<>>, <<" ">>, <<"a">>, <<"b">> }

SttEvents ==
    { Event("Results", f, s, t) : f \in BOOLEAN, s \in BOOLEAN, t \in SttTexts }
      \cup { Event("UtteranceEnd", FALSE, FALSE, <<>>) }

ShortInterim == <<"a", "b", "a", "b", "a">>
LongInterim == <<"a", "b", "a", "b", "a", "b">>

SeqEvents == { Event("Results", TRUE, TRUE, <<"a">>) }

IntEvents ==
    { Event("Results", TRUE, TRUE, <<"a">>),
      Event("Results", FALSE, FALSE, ShortInterim),
      Event("Results", FALSE, FALSE, LongInterim) }

PlayChunks ==
    { Chunk(<<"a", "*">>, FALSE, "", <<>>, "null"),
      Chunk(<<"a">>, FALSE, "", <<>>, "stop") }

GptEvents == { Event("Results", TRUE, TRUE, <<"a">>) }

GptChunks ==
    { Chunk(<<"a">>, FALSE, "", <<>>, "null"),
      Chunk(<<"a", "*">>, FALSE, "", <<>>, "null"),
      Chunk(<<>>, FALSE, "", <<>>, "stop"),
      Chunk(<<>>, TRUE, "lookupPrice", <<"{", "}">>, "null"),
      Chunk(<<>>, TRUE, "", <<"!">>, "null"),
      Chunk(<<>>, FALSE, "", <<>>, "tool_calls") }

ToolResults == { <<"r">> }

\* What the constructor may find at the path of prompt.json
PromptFiles ==
    { PromptJson, PromptFile("absent", <<>>, <<>>), PromptFile("unparseable", <<>>, <<>>) }

ChainEvents == { Event("Results", TRUE, TRUE, <<"a">>) }

ChainChunks ==
    { Chunk(<<"a">>, FALSE, "", <<>>, "null"),
      Chunk(<<"*", " ">>, FALSE, "", <<>>, "null"),
      Chunk(<<>>, TRUE, "lookupPrice", <<"{", "{", "}", "}">>, "null"),
      Chunk(<<>>, FALSE, "", <<>>, "tool_calls"),
      Chunk(<<>>, FALSE, "", <<>>, "stop") }

BargeEvents ==
    { Event("Results", TRUE, TRUE, <<"a">>),
      Event("Results", FALSE, FALSE, LongInterim) }

BargeChunks ==
    { Chunk(<<"a", "*">>, FALSE, "", <<>>, "null"),
      Chunk(<<>>, TRUE, "lookupPrice", <<"{", "}">>, "null"),
      Chunk(<<>>, FALSE, "", <<>>, "tool_calls"),
      Chunk(<<>>, FALSE, "", <<>>, "stop") }

----------------------------------------------------------------------------
(* Specifications *)

\* The transcript finalizer under every provider event
NextStt ==
    \/ Start
    \/ Greet
    \/ \E ev \in SttEvents : Transcript(ev)

SpecStt == Init /\ [][NextStt]_vars

\* The sequencer: fragments of plain replies of overlapping turns and their
\* synthesis completing in any order
NextSeq ==
    \/ Start
    \/ Greet
    \/ \E ev \in SeqEvents : greeted /\ interactionCount < MaxTurns /\ Transcript(ev)
    \/ \E p \in 1..Len(procs) : \E c \in PlayChunks :
          partialResponseIndex < MaxFragments /\ StreamChunk(p, c)
    \/ \E p \in 1..Len(procs) : StreamEnd(p)
    \/ \E pos \in synth : TtsDone(pos)

SpecSeq == Init /\ [][NextSeq]_vars

\* Interruption: the chunks of one reply, the transport's mark reports and
\* interim transcripts
NextInt ==
    \/ Start
    \/ Greet
    \/ \E ev \in IntEvents : greeted /\ Transcript(ev)
    \/ \E p \in 1..Len(procs) : \E c \in PlayChunks :
          partialResponseIndex < MaxSpoken /\ StreamChunk(p, c)
    \/ \E pos \in synth : TtsDone(pos)
    \/ \E name \in 1..nMarks : MarkMsg(name)

SpecInt == Init /\ [][NextInt]_vars

\* The agent: text and tool-call streams, tool outcomes, chained tool calls
NextGpt ==
    \/ Start
    \/ Greet
    \/ \E ev \in GptEvents : greeted /\ Len(procs) < MaxProcs /\ Transcript(ev)
    \/ \E p \in 1..Len(procs) : \E c \in GptChunks :
          (c.finish = "null" => TotalChunks(procs) < MaxChunks) /\ StreamChunk(p, c)
    \/ \E p \in 1..Len(procs) : StreamEnd(p)
    \/ \E p \in 1..Len(procs) : \E r \in ToolResults :
          Len(procs) < MaxProcs /\ ToolReturn(p, r)
    \/ \E p \in 1..Len(procs) : ToolThrow(p)

SpecGpt == Init /\ [][NextGpt]_vars

\* Barge-in during a tool call: in the turn of one utterance a reply fragment
\* is played, the model calls a tool it has named, the tool runs and returns,
\* and interim transcripts arrive at any point
NextBarge ==
    \/ Start
    \/ Greet
    \/ \E ev \in BargeEvents : greeted /\ (ev.is_final => procs = <<>>) /\ Transcript(ev)
    \/ \E p \in 1..Len(procs) : \E c \in BargeChunks :
          /\ c.finish = "null" => TotalChunks(procs) < MaxChunks
          /\ c.finish = "tool_calls" => procs[p].functionName \in ToolNames
          /\ StreamChunk(p, c)
    \/ \E p \in 1..Len(procs) : StreamEnd(p)
    \/ \E p \in 1..Len(procs) : \E r \in ToolResults :
          Len(procs) < MaxProcs /\ ToolReturn(p, r)
    \/ \E pos \in synth : TtsDone(pos)

SpecBarge == Init /\ [][NextBarge]_vars

\* A model that may answer every request with a tool call: the turn of one
\* utterance, each stream of at most MaxChunks deltas before its finish
NextChain ==
    \/ Start
    \/ Greet
    \/ \E ev \in ChainEvents : greeted /\ procs = <<>> /\ Transcript(ev)
    \/ \E p \in 1..Len(procs) : \E c \in ChainChunks :
          (c.finish = "null" => procs[p].nChunks < MaxChunks) /\ StreamChunk(p, c)
    \/ \E p \in 1..Len(procs) : StreamEnd(p)
    \/ \E p \in 1..Len(procs) : \E r \in ToolResults :
          Len(procs) < MaxChain /\ ToolReturn(p, r)

SpecChain == Init /\ [][NextChain]_vars

\* A synthesizer that may fail: the fragments of plain replies, the synthesis
\* of each completing or failing in any order
NextSyn ==
    \/ Start
    \/ Greet
    \/ \E ev \in SeqEvents : greeted /\ interactionCount < MaxTurns /\ Transcript(ev)
    \/ \E p \in 1..Len(procs) : \E c \in PlayChunks :
          partialResponseIndex < MaxSpoken /\ StreamChunk(p, c)
    \/ \E pos \in synth : TtsDone(pos)
    \/ \E pos \in synth : TtsFail(pos)

SpecSyn == Init /\ [][NextSyn]_vars

\* Construction with any prompt.json, then the transcript finalizer under
\* every provider event
InitAnyPrompt == \E file \in PromptFiles : InitWith(file)

SpecBoot == InitAnyPrompt /\ [][NextStt]_vars

\* Plain replies: the deltas of the streams of overlapping turns, with and
\* without a phrase-break marker, each stream ending with stop
ReplyChunks ==
    { Chunk(<<"a">>, FALSE, "", <<>>, "null"),
      Chunk(<<"a", "*">>, FALSE, "", <<>>, "null"),
      Chunk(<<"b">>, FALSE, "", <<>>, "stop"),
      Chunk(<<>>, FALSE, "", <<>>, "stop") }

NextReply ==
    \/ Start
    \/ Greet
    \/ \E ev \in SeqEvents : greeted /\ interactionCount < MaxTurns /\ Transcript(ev)
    \/ \E p \in 1..Len(procs) : \E c \in ReplyChunks :
          (c.finish = "null" => TotalChunks(procs) < MaxChunks) /\ StreamChunk(p, c)
    \/ \E p \in 1..Len(procs) : StreamEnd(p)

SpecReply == Init /\ [][NextReply]_vars

Next == NextStt \/ NextSeq \/ NextInt \/ NextGpt \/ NextBarge \/ NextChain \/ NextSyn
           \/ NextReply

Spec == Init /\ [][Next]_vars

----------------------------------------------------------------------------
(* Claims about the transcript finalizer, checked under SpecStt *)

\* A step that handles one provider event
EventStep == nEvents' = nEvents + 1

\* The texts of the events es, each followed by the separator, concatenated
RECURSIVE JoinTexts(_)
JoinTexts(es) == IF es = <<>> THEN <<>> ELSE Head(es).text \o <<" ">> \o JoinTexts(Tail(es))

\* Every event of es is a final transcript that is not speech-final
AllFinalNotSpeechFinal(es) ==
    \A i \in 1..Len(es) : es[i].type = "Results" /\ es[i].is_final /\ ~es[i].speech_final

AllNonBlank(es) == \A i \in 1..Len(es) : NonBlank(es[i].text)

UtteranceOf(text) == [event |-> "transcription", text |-> text]

\* The Utterances ("transcription" emissions) among the emissions out
RECURSIVE Utterances(_)
Utterances(out) ==
    IF out = <<>> THEN <<>>
    ELSE IF Head(out).event = "transcription" THEN <<Head(out)>> \o Utterances(Tail(out))
         ELSE Utterances(Tail(out))

\* C1 as stated: from an empty accumulator, a run of final events of which
\* only the last is speech-final yields exactly one Utterance, emitted at the
\* last event, whose text is the concatenation of the texts of all events of
\* the run in arrival order.
C1_Original ==
    [][ ( /\ EventStep
          /\ lastEvent'.type = "Results" /\ lastEvent'.is_final /\ lastEvent'.speech_final
          /\ AllFinalNotSpeechFinal(seg) )
        => /\ Len(Utterances(sttOut')) = Len(Utterances(SubSeq(sttOut, 1, segBase))) + 1
           /\ sttOut'[Len(sttOut')] = UtteranceOf(JoinTexts(Append(seg, lastEvent'))) ]_vars

\* C1 amended: the same for runs of final events whose texts are all
\* non-blank; the Utterance's text is the texts in arrival order, each
\* followed by one space.
C1_SpeechFinalEmitsConcatenation ==
    [][ ( /\ EventStep
          /\ lastEvent'.type = "Results" /\ lastEvent'.is_final /\ lastEvent'.speech_final
          /\ AllFinalNotSpeechFinal(seg)
          /\ AllNonBlank(Append(seg, lastEvent')) )
        => /\ Len(Utterances(sttOut')) = Len(Utterances(SubSeq(sttOut, 1, segBase))) + 1
           /\ sttOut'[Len(sttOut')] = UtteranceOf(JoinTexts(Append(seg, lastEvent'))) ]_vars

\* C1 witness: two final events "a", then "b" with speech_final, emitted one
\* Utterance "a b "
C1_Witness ==
    /\ nEvents = 2
    /\ lastEvent = Event("Results", TRUE, TRUE, <<"b">>)
    /\ sttOut = << UtteranceOf(<<"a", " ", "b", " ">>) >>

\* C2: an UtteranceEnd arriving with the flag false and a non-empty
\* accumulator emits exactly one Utterance carrying the accumulator and
\* leaves the accumulator empty; an UtteranceEnd arriving with an empty
\* accumulator, in particular a second UtteranceEnd in a row, emits nothing.
C2_UtteranceEndFallback ==
    [][ (EventStep /\ lastEvent'.type = "UtteranceEnd")
        => /\ (~speechFinal /\ finalResult # <<>>)
                => (sttOut' = Append(sttOut, UtteranceOf(finalResult)) /\ finalResult' = <<>>)
           /\ finalResult = <<>> => (sttOut' = sttOut /\ finalResult' = <<>>)
           /\ lastEvent.type = "UtteranceEnd" => sttOut' = sttOut ]_vars

\* C2 witness: a final "a" without speech_final, then an UtteranceEnd that
\* emitted "a "
C2_Witness ==
    /\ nEvents = 2
    /\ lastEvent.type = "UtteranceEnd"
    /\ sttOut = << UtteranceOf(<<"a", " ">>) >>
    /\ finalResult = <<>>

\* C3: accepted final text is emitted exactly once.  Never zero: pending text
\* stays pending or is emitted by the step.  Never two: a step emits at most
\* one Utterance and the emission empties the accumulator; and when a
\* speech-final event has emitted the Utterance, the UtteranceEnd that follows
\* it emits none.
C3_ExactlyOneUtterance ==
    [][ EventStep =>
        LET before == Utterances(sttOut)
            after == Utterances(sttOut')
            emitted == Len(after) = Len(before) + 1
            IsPrefix(a, b) == Len(a) <= Len(b) /\ SubSeq(b, 1, Len(a)) = a
        IN  /\ Len(after) \in {Len(before), Len(before) + 1}
            /\ emitted => finalResult' = <<>>
            /\ finalResult # <<>> =>
                  IF emitted THEN IsPrefix(finalResult, after[Len(after)].text)
                  ELSE IsPrefix(finalResult, finalResult')
            /\ ( /\ lastEvent.type = "Results" /\ lastEvent.is_final
                 /\ lastEvent.speech_final /\ NonBlank(lastEvent.text)
                 /\ lastEvent'.type = "UtteranceEnd" ) => ~emitted ]_vars

\* C3 witness: a speech-final "a" emitted the Utterance and the UtteranceEnd
\* after it emitted nothing
C3_Witness ==
    /\ nEvents = 2
    /\ lastEvent.type = "UtteranceEnd"
    /\ speechFinal
    /\ sttOut = << UtteranceOf(<<"a", " ">>) >>

----------------------------------------------------------------------------
(* Claims about playback, checked under SpecSeq and SpecInt *)

\* The sequence indices of the media messages of ws, in the order sent
RECURSIVE MediaIdx(_)
MediaIdx(ws) ==
    IF ws = <<>> THEN <<>>
    ELSE IF Head(ws).event = "media" THEN <<Head(ws).idx>> \o MediaIdx(Tail(ws))
         ELSE MediaIdx(Tail(ws))

\* The number of clear messages of ws
RECURSIVE Clears(_)
Clears(ws) ==
    IF ws = <<>> THEN 0
    ELSE (IF Head(ws).event = "clear" THEN 1 ELSE 0) + Clears(Tail(ws))

\* The positions of gptLog that are fragments handed to the synthesizer
FragmentPositions == {j \in 1..Len(gptLog) : gptLog[j].kind \in {"gptreply", "greeting"}}

\* The indices of the indexed fragments whose chunk has reached the sequencer
ArrivedIndices ==
    {gptLog[j].idx : j \in {k \in FragmentPositions : k \notin synth /\ gptLog[k].idx # NullIndex}}

\* The length of the longest run 0, 1, ..., n-1 inside the set of indices
RECURSIVE PrefixLen(_, _)
PrefixLen(indices, n) == IF n \in indices THEN PrefixLen(indices, n + 1) ELSE n

\* C4: whatever the order in which the chunks of the fragments 0..N-1 reach
\* the sequencer, the transport receives the chunks in strict index order
\* 0, 1, 2, ... and never one before all lower-indexed ones; the chunks sent
\* are exactly those of the longest run 0..n-1 that has arrived, so all N once
\* all N have arrived.
C4_InOrderPlayback ==
    LET m == MediaIdx(wsOut)
    IN  /\ \A i \in 1..Len(m) : m[i] = i - 1
        /\ Len(m) = PrefixLen(ArrivedIndices, 0)

\* C4 witness: the chunks 1 and 2 arrived before chunk 0 and are held, nothing
\* has been sent
C4_Witness ==
    /\ {1, 2} \subseteq held
    /\ nextToSend = 0
    /\ MediaIdx(wsOut) = <<>>

\* The step handled an interim transcript: "utterance" was emitted
InterimStep ==
    /\ EventStep
    /\ sttOut' = Append(sttOut, [event |-> "utterance", text |-> lastEvent'.text])

\* C5 as stated: an interruption (an interim transcript handled while a mark
\* is outstanding) sends one clear and empties the outstanding marks, so that
\* an interim transcript handled right after it sends no second clear.
C5_InterruptionEmptiesMarks ==
    [][ /\ (InterimStep /\ Interrupts(marks, lastEvent'.text))
            => (wsOut' = Append(wsOut, Msg("clear", NullIndex, 0)) /\ marks' = <<>>)
        /\ ( /\ InterimStep
              /\ lastEvent.type = "Results" /\ ~lastEvent.is_final
              /\ wsOut # <<>> /\ wsOut[Len(wsOut)].event = "clear" )
            => wsOut' = wsOut ]_vars

\* C6: an interim transcript handled while no mark is outstanding, or whose
\* text has 5 characters or fewer, sends nothing to the transport and leaves
\* the outstanding marks as they are.
C6_NoiseIsIgnored ==
    [][ (InterimStep /\ (marks = <<>> \/ Len(lastEvent'.text) <= 5))
        => (wsOut' = wsOut /\ marks' = marks) ]_vars

\* C6 witness: an interim text of 5 characters was handled while a mark was
\* outstanding, and no clear was sent
C6_Witness ==
    /\ lastEvent = Event("Results", FALSE, FALSE, ShortInterim)
    /\ marks # <<>>
    /\ Clears(wsOut) = 0

----------------------------------------------------------------------------
(* Claims about the agent, checked under SpecGpt and SpecSeq *)

\* The number of function-role turns of the context
RECURSIVE FunctionTurns(_)
FunctionTurns(ctx) ==
    IF ctx = <<>> THEN 0
    ELSE (IF Head(ctx).role = "function" THEN 1 ELSE 0) + FunctionTurns(Tail(ctx))

\* The step in which the tool of activation p returned
ToolReturnStep(p) ==
    /\ Len(gptLog') > Len(gptLog)
    /\ gptLog'[Len(gptLog) + 1].kind = "toolreturn"
    /\ gptLog'[Len(gptLog) + 1].proc = p

\* C7 as stated: for a stream that ended with tool_calls and valid JSON
\* arguments, the return of the tool appends exactly one function-role turn,
\* carrying the return value, to the dialogue log.
C7_OneFunctionTurn ==
    [][ \A p \in 1..Len(procs) :
          (ToolReturnStep(p) /\ IsJSON(procs[p].functionArgs))
          => /\ FunctionTurns(userContext') = FunctionTurns(userContext) + 1
             /\ userContext'[Len(userContext) + 1] =
                   Turn("function", procs[p].functionName, gptLog'[Len(gptLog) + 1].text) ]_vars

\* C8: every execution of a tool is directly preceded by the emission of that
\* tool's announcement by the same activation, and an activation has issued a
\* follow-up completion request exactly when its tool has returned: none while
\* the tool runs, one afterwards, logged right after the return.
C8_AnnounceBeforeToolOneFollowUp ==
    /\ \A j \in 1..Len(gptLog) :
          gptLog[j].kind = "toolcall"
          => /\ j > 1
             /\ gptLog[j - 1] = LogEntry("gptreply", gptLog[j].proc, NullIndex,
                                         Say(procs[gptLog[j].proc].functionName),
                                         gptLog[j].icount, gptLog[j].ctxLen)
    /\ \A p \in 1..Len(procs) :
          LET returns == {j \in 1..Len(gptLog) :
                            gptLog[j].kind = "toolreturn" /\ gptLog[j].proc = p}
              followUps == {j \in 1..Len(gptLog) :
                              /\ gptLog[j].kind = "request"
                              /\ procs[gptLog[j].proc].parent = p}
          IN  /\ Cardinality(returns) <= 1
              /\ followUps = {j + 1 : j \in returns}
              /\ procs[p].pc = "tool" => followUps = {}

\* C8 witness: a tool was announced, executed and returned, and the follow-up
\* request was issued
C8_Witness ==
    \E j \in 1..Len(gptLog) :
        /\ j + 3 <= Len(gptLog)
        /\ gptLog[j].kind = "gptreply" /\ gptLog[j].idx = NullIndex
        /\ gptLog[j + 1].kind = "toolcall"
        /\ gptLog[j + 2].kind = "toolreturn"
        /\ gptLog[j + 3].kind = "request"

\* The positions of gptLog that are indexed fragments of turn t, and of any turn
IndexedOf(t) ==
    {j \in 1..Len(gptLog) :
        gptLog[j].kind = "gptreply" /\ gptLog[j].idx # NullIndex /\ gptLog[j].icount = t}

Indexed == {j \in 1..Len(gptLog) : gptLog[j].kind = "gptreply" /\ gptLog[j].idx # NullIndex}

Turns == 0..(interactionCount - 1)

\* i and j are successive indexed fragments of turn t
Successive(t, i, j) ==
    /\ i \in IndexedOf(t) /\ j \in IndexedOf(t) /\ i < j
    /\ \A k \in IndexedOf(t) : ~(i < k /\ k < j)

IsFirstOf(t, j) == j \in IndexedOf(t) /\ \A k \in IndexedOf(t) : j <= k

\* C10 as stated: the first indexed fragment of every turn has index 0.
C10_Original ==
    \A t \in Turns : \A j \in IndexedOf(t) : IsFirstOf(t, j) => gptLog[j].idx = 0

\* C10 amended: the first indexed fragment of the first turn that emits one
\* has index 0; the first indexed fragment of any other turn has the number
\* of indexed fragments emitted before it as its index (the numbering goes on
\* across turns, it does not restart at 0).
C10_FirstIndexContinues ==
    \A t \in Turns : \A j \in IndexedOf(t) :
        IsFirstOf(t, j) => gptLog[j].idx = Cardinality({k \in Indexed : k < j})

\* C10 witness: the second turn emitted its first indexed fragment after a
\* fragment of the first turn
C10_Witness ==
    \E j \in IndexedOf(1) : IsFirstOf(1, j) /\ \E k \in IndexedOf(0) : k < j

----------------------------------------------------------------------------
(* Claims about the dialogue log, checked under SpecBarge *)

\* a is an initial part of b
PrefixOf(a, b) == Len(a) <= Len(b) /\ SubSeq(b, 1, Len(a)) = a

\* The turns of the context with the given role
TurnsOf(ctx, role) == {i \in 1..Len(ctx) : ctx[i].role = role}

\* C11: the dialogue log only grows: whatever step is taken (the start
\* message's setCallSid, a submit, a tool return, the end of a completion),
\* every turn of the log is afterwards still at its position with its role,
\* name and content; no step removes, reorders or rewrites a turn.
C11_LogOnlyGrows ==
    [][PrefixOf(userContext, userContext')]_vars

\* C11 witness: after the seed, setCallSid, a submit, a tool return and the
\* end of a completion have each appended to the log
C11_Witness ==
    /\ Len(userContext) >= 6
    /\ SubSeq(userContext, 1, 2) = LoadPromptFromFile(PromptJson)
    /\ userContext[3] = Turn("system", NoName, <<"C">>)
    /\ TurnsOf(userContext, "user") # {}
    /\ TurnsOf(userContext, "function") # {}
    /\ \E i \in TurnsOf(userContext, "assistant") : i > 2

----------------------------------------------------------------------------
(* Claims about interruption and the agent, checked under SpecBarge *)

\* The step handled an interim transcript that cleared the stream
InterruptStep == InterimStep /\ Interrupts(marks, lastEvent'.text)

\* The step in which the loop of activation p ended
StreamEndStep(p) == procs[p].pc = "stream" /\ procs'[p].pc = "done"

\* C12: an interruption does not cancel a completion or a tool execution in
\* flight: the interrupting step leaves every activation and the dialogue log
\* as they are, no activation is ever aborted, and after an interruption the
\* return of a tool still appends its tool-result turn and issues the
\* follow-up, and the end of a stream still appends its assistant turn.
C12_InterruptionDoesNotCancel ==
    [][ /\ InterruptStep => (procs' = procs /\ userContext' = userContext)
        /\ \A p \in 1..Len(procs) :
              /\ procs'[p].pc # "failed"
              /\ (clearedAt # NullIndex /\ ToolReturnStep(p))
                    => /\ userContext'[Len(userContext) + 1] =
                             Turn("function", procs[p].functionName,
                                  gptLog'[Len(gptLog) + 1].text)
                       /\ procs'[p].pc = "await"
                       /\ Len(procs') = Len(procs) + 1
              /\ (clearedAt # NullIndex /\ StreamEndStep(p))
                    => userContext' = Append(userContext,
                                             Turn("assistant", NoName,
                                                  procs[p].completeResponse)) ]_vars

\* C12 witness: the stream was cleared between the call of a tool and its
\* return; the tool-result turn was appended, the follow-up completion ended
\* and the activation that called the tool ended with its assistant turn
C12_Witness ==
    \E j, k \in 1..Len(gptLog) :
        /\ gptLog[j].kind = "toolcall" /\ gptLog[k].kind = "toolreturn"
        /\ gptLog[j].proc = gptLog[k].proc
        /\ j <= clearedAt /\ clearedAt < k
        /\ procs[gptLog[j].proc].pc = "done"
        /\ TurnsOf(userContext, "function") # {}
        /\ userContext[Len(userContext)].role = "assistant"

----------------------------------------------------------------------------
(* Claims about tool calls, checked under SpecChain and SpecGpt *)

\* The number of re-invocations of completion() that led to activation p
Depth(ps, p) == Cardinality(Ancestors(ps, p)) - 1

\* The configured maximum depth the claim speaks of.  The source configures
\* none; the model takes the largest one the chain can pass within its bound.
MaxToolChainDepth == MaxChain - 2

\* C13 as stated: within one submit the chain of tool-call re-invocations
\* never exceeds the configured maximum depth, and an activation at the
\* maximum depth never awaits a further completion.
C13_ToolChainDepthBounded ==
    \A p \in 1..Len(procs) :
        /\ Depth(procs, p) <= MaxToolChainDepth
        /\ Depth(procs, p) = MaxToolChainDepth => procs[p].pc # "await"

\* The step in which the stream of activation p signalled tool_calls
ToolCallsStep(p) ==
    procs[p].finishReason # "tool_calls" /\ procs'[p].finishReason = "tool_calls"

\* a is an object that JSON.parse accepts, written twice
IsDoubled(a) ==
    /\ Len(a) % 2 = 0
    /\ IsJSON(SubSeq(a, 1, Len(a) \div 2))
    /\ a = SubSeq(a, 1, Len(a) \div 2) \o SubSeq(a, 1, Len(a) \div 2)

FirstObject(a) == SubSeq(a, 1, Len(a) \div 2)

\* C14 as stated: when the accumulated arguments of a named tool are a JSON
\* object written twice, the tool is called with the parse of the first
\* object and the turn does not fail.
C14_DuplicatedArgsRecover ==
    [][ \A p \in 1..Len(procs) :
          ( /\ ToolCallsStep(p)
            /\ procs'[p].functionName \in ToolNames
            /\ IsDoubled(procs'[p].functionArgs) )
          => /\ procs'[p].pc = "tool"
             /\ gptLog'[Len(gptLog')].kind = "toolcall"
             /\ gptLog'[Len(gptLog')].text = FirstObject(procs'[p].functionArgs) ]_vars

\* C15 as stated: when the arguments of a named tool cannot be parsed and
\* are not recovered, the tool call is dropped: the completion does not
\* fail, the tool is not executed and no tool turn is appended.
C15_UnparseableArgsDropTheCall ==
    \A p \in 1..Len(procs) :
        ( /\ procs[p].finishReason = "tool_calls"
          /\ procs[p].functionName \in ToolNames
          /\ ValidateFunctionArgs(procs[p].functionArgs).outcome # "value" )
        => /\ procs[p].pc \notin {"failed", "tool", "await"}
           /\ \A j \in 1..Len(gptLog) :
                 gptLog[j].proc = p => gptLog[j].kind \notin {"toolcall", "toolreturn"}

\* The step in which the tool called by activation p ended, with a result or
\* with a failure
ToolEndStep(p) == procs[p].pc = "tool" /\ procs'[p].pc # "tool"

\* C16 as stated: however the tool of an activation ends, with a result or
\* with a failure, a tool-result turn is appended to the dialogue log and a
\* follow-up completion is issued; the activation is not aborted.
C16_ToolFailureBecomesTurn ==
    [][ \A p \in 1..Len(procs) :
          ToolEndStep(p)
          => /\ procs'[p].pc = "await"
             /\ Cardinality(TurnsOf(userContext', "function"))
                   > Cardinality(TurnsOf(userContext, "function"))
             /\ Len(gptLog') > Len(gptLog)
             /\ gptLog'[Len(gptLog')].kind = "request" ]_vars

\* C17 as stated: a step appends an assistant turn exactly when it ends a
\* stream that finished normally, and the turn's content is the text of that
\* stream; the end of a stream that finished with tool_calls appends nothing.
C17_AssistantTurnPerNormalFinish ==
    [][ LET normal == {p \in 1..Len(procs) :
                         StreamEndStep(p) /\ procs[p].finishReason # "tool_calls"}
        IN  /\ \A p \in normal :
                  userContext' = Append(userContext,
                                        Turn("assistant", NoName, procs[p].completeResponse))
            /\ normal = {} =>
                  TurnsOf(userContext', "assistant") = TurnsOf(userContext, "assistant") ]_vars

----------------------------------------------------------------------------
(* Claims about discarded and missing audio, checked under SpecInt and SpecSyn *)

\* The position in ws of the last clear message, 0 when there is none
LastClear(ws) ==
    LET at == {i \in 1..Len(ws) : ws[i].event = "clear"}
    IN  IF at = {} THEN 0 ELSE CHOOSE i \in at : \A j \in at : i >= j

\* The position in gptLog of the fragment with sequence index idx
PositionOf(idx) == CHOOSE j \in Indexed : gptLog[j].idx = idx

C19_FailedFragmentOnlyIsMissing ==
    synth = {} => \A i \in held : i = NullIndex

----------------------------------------------------------------------------
(* Claims about construction, checked under SpecBoot *)

\* C20: the dialogue log starts with one system turn followed by one
\* assistant turn, and until the start message is handled it holds exactly
\* these two turns, whether prompt.json was read or was absent or unparseable.
C20_SeedIsSystemThenAssistant ==
    /\ Len(userContext) >= 2
    /\ userContext[1].role = "system"
    /\ userContext[2].role = "assistant"
    /\ ~started => Len(userContext) = 2

\* C20 witness: prompt.json was absent or unparseable and the log holds the
\* two default turns
C20_Witness ==
    /\ ~started
    /\ userContext = << Turn("system", NoName, DefaultSystemPrompt),
                        Turn("assistant", NoName, DefaultAssistantPrompt) >>

----------------------------------------------------------------------------
(* Claims about the greeting, checked under SpecBarge *)

\* C21: at any time of the call, after any submits, tool calls and
\* setCallSid, getInitialGreeting() returns the content of the assistant turn
\* seeded at construction, not that of a later assistant turn.
C21_GreetingIsSeededTurn ==
    /\ GetInitialGreeting(userContext) = userContext[2].content
    /\ GetInitialGreeting(userContext) = AssistantPrompt

\* C21 witness: a completion has appended an assistant turn whose content is
\* not the seeded greeting
C21_Witness ==
    \E i \in TurnsOf(userContext, "assistant") :
        i > 2 /\ userContext[i].content # AssistantPrompt

----------------------------------------------------------------------------
(* Further claims about the transcript finalizer, checked under SpecStt *)

\* The step handled a Results event that is not final
NonFinalStep == EventStep /\ lastEvent'.type = "Results" /\ ~lastEvent'.is_final

\* The step emitted the event's text on the interim channel and nothing else,
\* and left the accumulator and the flag as they were
InterimOnly ==
    /\ sttOut' = Append(sttOut, Emission("utterance", lastEvent'.text))
    /\ finalResult' = finalResult
    /\ speechFinal' = speechFinal

\* C22 as stated: a non-final event with non-empty text is emitted on the
\* interim channel only; no Utterance is emitted, the accumulator and the
\* flag are unchanged.
C22_Original ==
    [][ (NonFinalStep /\ lastEvent'.text # <<>>) => InterimOnly ]_vars

\* C22 amended: the same for a non-final event whose text is not blank (has a
\* character other than white space).
C22_InterimOnly ==
    [][ (NonFinalStep /\ NonBlank(lastEvent'.text)) => InterimOnly ]_vars

\* C22 witness: with the text "a " pending, the interim text "b" was emitted
\* and the pending text is still there
C22_Witness ==
    /\ lastEvent = Event("Results", FALSE, FALSE, <<"b">>)
    /\ finalResult = <<"a", " ">>
    /\ sttOut = << Emission("utterance", <<"b">>) >>

----------------------------------------------------------------------------
(* Claims about playback marks, checked under SpecInt *)

\* The labels of the mark messages of ws
MarkLabels(ws) == {ws[i].name : i \in {j \in 1..Len(ws) : ws[j].event = "mark"}}

\* The labels held in mks
MarkSet(mks) == {mks[i] : i \in 1..Len(mks)}

\* C23: every chunk sent to the transport comes with one mark of its own,
\* and the outstanding marks are exactly the marks sent and not yet reported
\* by the transport, each held once; hence the set is non-empty exactly while
\* some sent chunk has not been acknowledged.
C23_MarksAreUnacknowledgedChunks ==
    /\ Cardinality(MarkLabels(wsOut)) = Len(MediaIdx(wsOut))
    /\ MarkSet(marks) = MarkLabels(wsOut) \ acked
    /\ Cardinality(MarkSet(marks)) = Len(marks)
    /\ (marks # <<>>) <=> (MarkLabels(wsOut) \ acked # {})

\* C23 witness: two chunks were sent, the transport reported the mark of the
\* second and the mark of the first is still outstanding
C23_Witness ==
    /\ Len(MediaIdx(wsOut)) = 2
    /\ acked = {2}
    /\ marks = <<1>>

----------------------------------------------------------------------------
(* Claims about the fragments of the agent, checked under SpecGpt and SpecChain *)

\* The fragment logged at position j is the announcement of a tool
IsAnnouncement(j) == j < Len(gptLog) /\ gptLog[j + 1].kind = "toolcall"

\* C24 as stated: every fragment the agent emits carries an integer sequence
\* index >= 0, the announcement of a tool and the initial greeting included.
C24_Original ==
    \A j \in FragmentPositions : gptLog[j].idx \in Nat

\* C24 amended: every fragment emitted from the text of a stream carries an
\* integer sequence index >= 0; the announcement of a tool and the initial
\* greeting carry no index (null).
C24_TextFragmentsIndexed ==
    \A j \in FragmentPositions :
        IF gptLog[j].kind = "greeting" \/ IsAnnouncement(j)
          THEN gptLog[j].idx = NullIndex
          ELSE gptLog[j].idx \in Nat

\* C24 witness: the greeting, a fragment of stream text and the announcement
\* of a tool have been emitted
C24_Witness ==
    /\ \E j \in FragmentPositions : gptLog[j].kind = "greeting"
    /\ \E j \in FragmentPositions : IsAnnouncement(j)
    /\ \E j \in FragmentPositions : gptLog[j].idx \in Nat

\* The step in which activation p consumed a delta in the text branch
TextStep(p) ==
    /\ procs'[p].nChunks = procs[p].nChunks + 1
    /\ procs'[p].finishReason # "tool_calls"

\* The text of the delta consumed in a text step of p, and the fragment
\* buffer with that text appended
DeltaOf(p) ==
    SubSeq(procs'[p].completeResponse, Len(procs[p].completeResponse) + 1,
           Len(procs'[p].completeResponse))

BufferOf(p) == procs[p].partialResponse \o DeltaOf(p)

EndsWithMarker(t) == t # <<>> /\ t[Len(t)] = "*"

\* The step emitted the fragment buffer of p as one fragment and cleared it
FragmentEmitted(p) ==
    /\ gptLog' = Append(gptLog, LogEntry("gptreply", p, partialResponseIndex, BufferOf(p),
                                         procs[p].icount, Len(userContext)))
    /\ procs'[p].partialResponse = <<>>

\* The step only accumulated the delta
OnlyAccumulated(p) == gptLog' = gptLog /\ procs'[p].partialResponse = BufferOf(p)

----------------------------------------------------------------------------
(* Claims about the submit of an Utterance, checked under SpecStt *)

\* The step emitted an Utterance
UtteranceStep == EventStep /\ Len(Utterances(sttOut')) = Len(Utterances(sttOut)) + 1

\* The Utterance a step emitted
Emitted == Utterances(sttOut')[Len(Utterances(sttOut'))]

\* C26: the submit of an Utterance appends exactly one user turn holding
\* the Utterance's text to the dialogue log and then issues one completion
\* request, made of the whole log with that turn as its last; nothing else
\* is appended and no other request is issued by the step.
C26_UserTurnThenRequest ==
    [][ UtteranceStep =>
          /\ userContext' = Append(userContext, Turn("user", NoName, Emitted.text))
          /\ gptLog' = Append(gptLog, LogEntry("request", Len(procs) + 1, NullIndex,
                                               Emitted.text, interactionCount,
                                               Len(userContext) + 1))
          /\ procs' = Append(procs, NewProc(interactionCount, 0)) ]_vars

\* C26 witness: the Utterances "a " and "b " were submitted one after the
\* other; the second request was made of the log with both user turns
C26_Witness ==
    /\ Len(userContext) = 5
    /\ userContext[4] = Turn("user", NoName, <<"a", " ">>)
    /\ userContext[5] = Turn("user", NoName, <<"b", " ">>)
    /\ Len(gptLog) = 2
    /\ gptLog[2] = LogEntry("request", 2, NullIndex, <<"b", " ">>, 1, 5)

----------------------------------------------------------------------------
(* Claims about the finalizer's state and emissions, checked under SpecStt *)

\* C27: whenever the speechFinal flag is true the accumulator is empty; text
\* is pending only while the flag is false.
C27_FlagImpliesEmptyAccumulator ==
    speechFinal => finalResult = <<>>

\* C27 witness: after the speech-final event that set the flag, a final
\* event with blank text was handled; the flag is still true and the
\* accumulator empty
C27_Witness ==
    /\ speechFinal
    /\ nEvents = 2
    /\ lastEvent = Event("Results", TRUE, FALSE, <<" ">>)
    /\ finalResult = <<>>

\* C28: every Utterance emitted has non-empty text, so that the empty-text
\* guard of the transcription handler drops none: every Utterance emitted has
\* led to exactly one submit, which took one interaction number and appended
\* one user turn.
C28_UtterancesNonEmptyAndSubmitted ==
    /\ \A i \in 1..Len(Utterances(sttOut)) : Utterances(sttOut)[i].text # <<>>
    /\ interactionCount = Len(Utterances(sttOut))
    /\ Cardinality(TurnsOf(userContext, "user")) = Len(Utterances(sttOut))
    /\ Len(procs) = Len(Utterances(sttOut))

\* C28 witness: one Utterance was emitted on the speech-final path and one,
\* after it, on the end-of-segment path; both were submitted
C28_Witness ==
    /\ sttOut = << UtteranceOf(<<"a", " ">>), UtteranceOf(<<"b", " ">>) >>
    /\ lastEvent.type = "UtteranceEnd"
    /\ nEvents = 3
    /\ interactionCount = 2

\* C29: a Results event whose text is empty or white space only changes
\* nothing, even when it is final and speech-final: nothing is emitted, the
\* accumulator and the flag are unchanged.
C29_BlankEventChangesNothing ==
    [][ (EventStep /\ lastEvent'.type = "Results" /\ Trim(lastEvent'.text) = <<>>)
        => /\ sttOut' = sttOut
           /\ finalResult' = finalResult
           /\ speechFinal' = speechFinal ]_vars

\* C29 witness: with the text "a " pending, a final and speech-final event
\* with the text " " was handled: nothing was emitted, "a " is still pending
C29_Witness ==
    /\ lastEvent = Event("Results", TRUE, TRUE, <<" ">>)
    /\ finalResult = <<"a", " ">>
    /\ ~speechFinal
    /\ sttOut = <<>>

\* C30: a provider event produces at most one emission, an Utterance or an
\* interim notification, and only the handling of a provider event emits.
C30_AtMostOneEmission ==
    [][ /\ Len(sttOut') <= Len(sttOut) + 1
        /\ SubSeq(sttOut', 1, Len(sttOut)) = sttOut
        /\ ~EventStep => sttOut' = sttOut ]_vars

\* C30 witness: three events were handled, the first emitted an interim
\* notification, the second an Utterance and the third nothing
C30_Witness ==
    /\ nEvents = 3
    /\ lastEvent.type = "UtteranceEnd"
    /\ sttOut = << Emission("utterance", <<"a">>), UtteranceOf(<<"b", " ">>) >>

----------------------------------------------------------------------------
(* Claims about the fragments of plain replies, checked under SpecReply *)

\* C31: over the lifetime of the agent the indexed fragments carry the
\* indices 0, 1, 2, ... in emission order, with no repeat and no gap across
\* all turns, also when completions of different turns overlap; the counter
\* is the number of indexed fragments emitted so far.
C31_IndicesCountEmissions ==
    /\ \A j \in Indexed : gptLog[j].idx = Cardinality({k \in Indexed : k < j})
    /\ partialResponseIndex = Cardinality(Indexed)

\* C31 witness: before the completion of turn 0 or that of turn 1 has ended,
\* turn 0 emitted fragment 0, turn 1 fragment 1 and turn 0 fragment 2
C31_Witness ==
    /\ Len(procs) = 2
    /\ \A p \in 1..2 : procs[p].pc = "stream"
    /\ \E i, j \in IndexedOf(0) : \E k \in IndexedOf(1) :
          /\ i < k /\ k < j
          /\ gptLog[i].idx = 0 /\ gptLog[k].idx = 1 /\ gptLog[j].idx = 2

\* The indexed fragments that activation p emitted, in emission order
FragmentsOf(p) ==
    SelectSeq(gptLog, LAMBDA e : e.kind = "gptreply" /\ e.proc = p /\ e.idx # NullIndex)

\* The concatenation of the texts of the entries es
RECURSIVE ConcatTexts(_)
ConcatTexts(es) == IF es = <<>> THEN <<>> ELSE Head(es).text \o ConcatTexts(Tail(es))

\* Activation p consumed a stream without a tool call that ended with stop
PlainStop(p) == procs[p].finishReason = "stop" /\ procs[p].functionName = ""

\* C32: for a stream without a tool call that ends with stop, the texts of
\* the indexed fragments emitted for it, concatenated in emission order, are
\* the content of the assistant turn appended at its end: every delta is in
\* exactly one fragment.
C32_FragmentsMakeTheTurn ==
    [][ \A p \in 1..Len(procs) :
          (StreamEndStep(p) /\ PlainStop(p))
            => userContext' = Append(userContext,
                                     Turn("assistant", NoName, ConcatTexts(FragmentsOf(p)))) ]_vars

\* C32 witness: the first completion consumed the deltas "a", "a*" and, with
\* stop, "b"; it emitted the fragments "aa*" and "b" and its assistant turn
\* "aa*b" is the last of the log
C32_Witness ==
    /\ Len(procs) >= 1
    /\ procs[1].pc = "done"
    /\ PlainStop(1)
    /\ Len(FragmentsOf(1)) = 2
    /\ FragmentsOf(1)[1].text = <<"a", "a", "*">>
    /\ FragmentsOf(1)[2].text = <<"b">>
    /\ userContext[Len(userContext)] = Turn("assistant", NoName, <<"a", "a", "*", "b">>)

====
